---- MODULE Spec2Model ----
(***************************************************************************)
(* Model of the artifact updater (src/updater.go): main, the updater       *)
(* methods Artifacts, DownloadFile and DownloadAndReplace, the catalog     *)
(* methods HasArtifacts and LatestActiveSherpaArtifact, and unzip.         *)
(*                                                                         *)
(* Path strings are sequences of one-character strings, so that            *)
(* filepath.Join, filepath.Clean and strings.HasPrefix are computed on     *)
(* characters as the Go library computes them.  The filesystem is a        *)
(* function from absolute paths (sequences of components) to nodes.        *)
(***************************************************************************)
EXTENDS Integers, Sequences, FiniteSets, TLC

(* ------------------------------ bounds --------------------------------- *)
MaxArtifacts == 2   \* longest artifact sequence of a catalog
MaxEntries == 2     \* longest archive (number of zip entries)

(* --------------------------- string helpers ---------------------------- *)
Sep == "/"
Dot == <<".">>
DotDot == <<".", ".">>
Last(s) == s[Len(s)]
Front(s) == SubSeq(s, 1, Len(s) - 1)

\* strings.HasPrefix(s, prefix)
HasPrefix(s, prefix) ==
    /\ Len(prefix) <= Len(s)
    /\ SubSeq(s, 1, Len(prefix)) = prefix

\* the elements of a path string between separators ("" elements included)
RECURSIVE Split(_)
Split(s) ==
    IF s = <<>> THEN << <<>> >>
    ELSE LET rest == Split(Tail(s))
         IN  IF Head(s) = Sep
             THEN << <<>> >> \o rest
             ELSE << <<Head(s)>> \o Head(rest) >> \o Tail(rest)

\* the elements joined by single separators
RECURSIVE JoinSep(_)
JoinSep(comps) ==
    IF comps = <<>> THEN <<>>
    ELSE IF Len(comps) = 1 THEN Head(comps)
    ELSE Head(comps) \o <<Sep>> \o JoinSep(Tail(comps))

IsRooted(s) == s # <<>> /\ s[1] = Sep

\* the element rules of filepath.Clean: drop "" and ".", let ".." cancel the
\* element before it, drop ".." at the root, keep leading ".." otherwise
RECURSIVE CleanFrom(_, _, _)
CleanFrom(comps, out, rooted) ==
    IF comps = <<>> THEN out
    ELSE LET c == Head(comps)
             nxt == IF c = <<>> \/ c = Dot THEN out
                    ELSE IF c = DotDot
                         THEN IF out # <<>> /\ Last(out) # DotDot THEN Front(out)
                              ELSE IF rooted THEN out
                              ELSE Append(out, DotDot)
                    ELSE Append(out, c)
         IN  CleanFrom(Tail(comps), nxt, rooted)

\* filepath.Clean
Clean(s) ==
    LET out == CleanFrom(Split(s), <<>>, IsRooted(s))
    IN  IF IsRooted(s) THEN <<Sep>> \o JoinSep(out)
        ELSE IF out = <<>> THEN Dot
        ELSE JoinSep(out)

\* filepath.Join(a, b) (path.Join is the same on a slash-separated system)
Join(a, b) ==
    IF a = <<>> /\ b = <<>> THEN <<>>
    ELSE IF a = <<>> THEN Clean(b)
    ELSE IF b = <<>> THEN Clean(a)
    ELSE Clean(a \o <<Sep>> \o b)

\* filepath.Dir
Dir(s) ==
    LET seps == {i \in 1..Len(s) : s[i] = Sep}
        cut == IF seps = {} THEN 0 ELSE CHOOSE i \in seps : \A j \in seps : j <= i
    IN  Clean(SubSeq(s, 1, cut))

(* ------------------------------ filesystem ----------------------------- *)
\* the working directory of the process
Cwd == << <<"w">>, <<"c">> >>

\* the absolute location the operating system resolves a path string to
RECURSIVE ResolveFrom(_, _)
ResolveFrom(comps, at) ==
    IF comps = <<>> THEN at
    ELSE LET c == Head(comps)
             nxt == IF c = <<>> \/ c = Dot THEN at
                    ELSE IF c = DotDot
                         THEN IF at = <<>> THEN at ELSE Front(at)
                    ELSE Append(at, c)
         IN  ResolveFrom(Tail(comps), nxt)

Resolve(s) == ResolveFrom(Split(s), IF IsRooted(s) THEN <<>> ELSE Cwd)

DirNode == [kind |-> "dir", bytes |-> <<>>, zip |-> <<>>, valid |-> FALSE]
FileNode(b) == [kind |-> "file", bytes |-> b, zip |-> <<>>, valid |-> FALSE]
\* a file holding a zip archive; valid = FALSE for a truncated or non-zip body
ZipNode(z, ok) == [kind |-> "file", bytes |-> <<>>, zip |-> z, valid |-> ok]

Exists(f, p) == p \in DOMAIN f
IsDirAt(f, p) == p \in DOMAIN f /\ f[p].kind = "dir"
IsFileAt(f, p) == p \in DOMAIN f /\ f[p].kind = "file"

\* p is q or an ancestor of q
Within(p, q) == Len(p) <= Len(q) /\ SubSeq(q, 1, Len(p)) = p
Under(p, q) == Within(p, q) /\ p # q
Prefixes(p) == {SubSeq(p, 1, k) : k \in 0..Len(p)}
ChildNames(f, p) == {Last(q) : q \in {x \in DOMAIN f : Len(x) = Len(p) + 1 /\ Within(p, x)}}

Put(f, p, node) == [q \in DOMAIN f \cup {p} |-> IF q = p THEN node ELSE f[q]]
\* the filesystem without p and everything below it
Without(f, p) == [q \in {x \in DOMAIN f : ~Within(p, x)} |-> f[q]]
\* the filesystem without what lies below p (p itself stays)
Emptied(f, p) == [q \in {x \in DOMAIN f : ~Under(p, x)} |-> f[q]]

\* os.Mkdir: one level, the parent must be a directory, the path must be new
MkdirOK(f, p) == p # <<>> /\ ~Exists(f, p) /\ IsDirAt(f, Front(p))
\* os.MkdirAll: no existing element of the path may be a file
MkdirAllOK(f, p) == \A q \in Prefixes(p) : Exists(f, q) => f[q].kind = "dir"
MkdirAll(f, p) == [q \in DOMAIN f \cup Prefixes(p) |-> IF q \in DOMAIN f THEN f[q] ELSE DirNode]
\* os.OpenFile(O_WRONLY|O_CREATE|O_TRUNC) and os.Create
CreateOK(f, p) == p # <<>> /\ IsDirAt(f, Front(p)) /\ ~IsDirAt(f, p)

(* ------------------ ioutil.ReadDir: sorted by filename ----------------- *)
Alphabet == <<".", "/", "b", "c", "d", "e", "f", "g", "i", "l", "o", "p", "s", "t", "u", "w", "x", "z">>
Code(c) == CHOOSE i \in 1..Len(Alphabet) : Alphabet[i] = c

RECURSIVE LessStr(_, _)
LessStr(a, b) ==
    IF a = <<>> THEN b # <<>>
    ELSE IF b = <<>> THEN FALSE
    ELSE IF Head(a) = Head(b) THEN LessStr(Tail(a), Tail(b))
    ELSE Code(Head(a)) < Code(Head(b))

RECURSIVE SortNames(_)
SortNames(S) ==
    IF S = {} THEN <<>>
    ELSE LET m == CHOOSE x \in S : \A y \in S \ {x} : LessStr(x, y)
         IN  <<m>> \o SortNames(S \ {m})

ReadDir(f, p) ==
    LET names == SortNames(ChildNames(f, p))
    IN  [i \in 1..Len(names) |-> [name |-> names[i], isDir |-> IsDirAt(f, Append(p, names[i]))]]

(* ------------------------------- inputs -------------------------------- *)
DistZip == <<"d", "i", "s", "t", ".", "z", "i", "p">>      \* "dist.zip"
TargetName == "sherpa4selfie"

\* values of the -d flag: "o", "/t", "." and the working directory "/w/c"
Directories == { <<"o">>, <<"/", "t">>, <<".">>, <<"/", "w", "/", "c">> }
\* destinations unzip is called with directly: the above and ".."
UnzipDirectories == Directories \cup { DotDot }

\* name and expired flag of an artifact: qualifying, expired, differently named
ArtifactKinds == { <<TargetName, FALSE>>, <<TargetName, TRUE>>, <<"other", FALSE>> }
\* reported total_count values: zero and greater than zero, whatever the length
Counts == {0, 1}
NoArtifact == [ID |-> 0, Name |-> "", Expired |-> FALSE]
NoData == [Count |-> 0, Artifacts |-> <<>>]
\* decoded listing responses; the ID of an artifact is its position
Catalogs ==
    UNION { { [Count |-> c,
               Artifacts |-> [i \in 1..n |-> [ID |-> i, Name |-> k[i][1], Expired |-> k[i][2]]]] :
              k \in [1..n -> ArtifactKinds], c \in Counts } :
            n \in 0..MaxArtifacts }

\* zip entries: foo, d/, d/g (empty) and the zip-slip entry ../e
EntryUniverse ==
    { [Name |-> <<"f">>, IsDir |-> FALSE, Data |-> <<1>>],
      [Name |-> <<"d", "/">>, IsDir |-> TRUE, Data |-> <<>>],
      [Name |-> <<"d", "/", "g">>, IsDir |-> FALSE, Data |-> <<>>],
      [Name |-> <<".", ".", "/", "e">>, IsDir |-> FALSE, Data |-> <<1>>] }
Archives == UNION { [1..n -> EntryUniverse] : n \in 0..MaxEntries }

OldFile == <<"o", "l", "d">>
OldSub == <<"s", "u", "b">>
BaseFs == [q \in Prefixes(Cwd) |-> DirNode]
\* the filesystem before the run: the target absent, empty, or holding an
\* unrelated file and an unrelated sub-directory with a file in it
InitFs(d, old) ==
    LET T == Resolve(d)
        made == MkdirAll(BaseFs, T)
    IN  IF old = "absent" THEN BaseFs
        ELSE IF old = "empty" THEN made
        ELSE Put(Put(Put(made, Append(T, OldFile), FileNode(<<9>>)),
                     Append(T, OldSub), DirNode),
                 Append(Append(T, OldSub), <<"x">>), FileNode(<<9>>))
OldKinds(d) == IF Resolve(d) \in Prefixes(Cwd) THEN {"empty", "full"} ELSE {"absent", "empty", "full"}

(* ------------------------------- catalog ------------------------------- *)
\* the sequence length trusted in place of the reported count
HasArtifactsByLength(a) == Len(a.Artifacts) > 0

\* the comparison off by one
HasArtifactsNonNegative(a) == a.Count >= 0

\* artifacts.HasArtifacts
HasArtifacts(a) == a.Count > 0

RECURSIVE ScanLast(_, _, _)
ScanLast(arts, i, found) ==
    IF i > Len(arts) THEN found
    ELSE IF arts[i].Name = TargetName /\ ~arts[i].Expired
         THEN ScanLast(arts, i + 1, [response |-> arts[i], err |-> ""])
         ELSE ScanLast(arts, i + 1, found)

\* the loop of LatestActiveSherpaArtifact from position i on
RECURSIVE Scan(_, _)
Scan(arts, i) ==
    IF i > Len(arts) THEN [response |-> NoArtifact, err |-> "no suitable artifacts found"]
    ELSE IF arts[i].Name = TargetName /\ ~arts[i].Expired
         THEN [response |-> arts[i], err |-> ""]
         ELSE Scan(arts, i + 1)

\* the loop without its break: the last match wins
LatestActiveSherpaArtifactNoBreak(a) ==
    ScanLast(a.Artifacts, 1, [response |-> NoArtifact, err |-> "no suitable artifacts found"])

\* artifacts.LatestActiveSherpaArtifact
LatestActiveSherpaArtifact(a) == Scan(a.Artifacts, 1)

(* -------------------------------- state -------------------------------- *)
VARIABLES
    pc,          \* position of main: the step about to run, or a terminal state
    repository, token, directory,   \* the fields of updater
    data,        \* the decoded catalog
    artifact,    \* the selected artifact
    body,        \* the archive the download endpoint served, <<>> before that
    fs,          \* the filesystem
    fs0,         \* the filesystem before the run
    files,       \* DownloadAndReplace: the directory listing still to remove
    r,           \* unzip: the entries of the opened archive (r.File)
    idx,         \* unzip: position of the loop in r.File
    filenames,   \* unzip: the returned path list
    err,         \* the error of the step that failed, "" for none
    exitCode,    \* exit status of the process, -1 while it runs
    listReqs,    \* listing requests issued
    dlReqs,      \* download requests issued
    failedAt,    \* the position at which the run failed, "" for none
    envFault,    \* some filesystem call failed for a reason outside the model
    handles,     \* the open file handles, archive readers and response bodies
    peak,        \* unzip: the most output files that were open at one moment
    unzipCalls   \* calls of unzip

vars == <<pc, repository, token, directory, data, artifact, body, fs, fs0, files, r, idx,
          filenames, err, exitCode, listReqs, dlReqs, failedAt, envFault,
          handles, peak, unzipCalls>>
cfg == <<repository, token, directory, fs0>>

ZipPath == Resolve(DistZip)
Target == Resolve(directory)

Init ==
    /\ pc = "Start"
    /\ repository \in {"", "r"}
    /\ token \in {"", "t"}
    /\ directory \in Directories \cup { <<>> }
    /\ \E old \in OldKinds(directory) : fs = InitFs(directory, old)
    /\ fs0 = fs
    /\ data = NoData
    /\ artifact = NoArtifact
    /\ body = <<>>
    /\ files = <<>>
    /\ r = <<>>
    /\ idx = 0
    /\ filenames = <<>>
    /\ err = ""
    /\ exitCode = -1
    /\ listReqs = 0
    /\ dlReqs = 0
    /\ failedAt = ""
    /\ envFault = FALSE
    /\ handles = {}
    /\ peak = 0
    /\ unzipCalls = 0

\* unzip called on its own: any destination, a valid archive in place
InitUnzip ==
    /\ pc = "Extracting"
    /\ repository = "r"
    /\ token = "t"
    /\ directory \in UnzipDirectories
    /\ body \in Archives
    /\ fs = Put(MkdirAll(BaseFs, Resolve(directory)), ZipPath, ZipNode(body, TRUE))
    /\ fs0 = fs
    /\ data = NoData
    /\ artifact = NoArtifact
    /\ files = <<>>
    /\ r = <<>>
    /\ idx = 0
    /\ filenames = <<>>
    /\ err = ""
    /\ exitCode = -1
    /\ listReqs = 0
    /\ dlReqs = 0
    /\ failedAt = ""
    /\ envFault = FALSE
    /\ handles = {}
    /\ peak = 0
    /\ unzipCalls = 0

\* handles: a response body, the file DownloadFile writes, the archive reader
\* of unzip, and the output file of entry n of the archive
RespBody == [kind |-> "resp", path |-> <<>>, n |-> 0]
DownloadHandle == [kind |-> "file", path |-> ZipPath, n |-> 0]
ZipReader == [kind |-> "zip", path |-> ZipPath, n |-> 0]
OutFile(q, i) == [kind |-> "out", path |-> q, n |-> i]
Opened(h, x) == h \cup {x}
Closed(h, x) == h \ {x}
OutFilesOpen(h) == {x \in h : x.kind = "out"}
MaxOfTwo(a, b) == IF a >= b THEN a ELSE b

\* log.Fatal: the run halts, exit status 1
Fatal(reason) ==
    /\ pc' = "Failed"
    /\ err' = reason
    /\ exitCode' = 1
    /\ failedAt' = pc

(* -------------------------------- main --------------------------------- *)
\* main, flag check: a missing option prints a message and returns
CheckFlags ==
    /\ pc = "Start"
    /\ IF repository = "" \/ token = "" \/ directory = <<>>
       THEN /\ pc' = "Aborted"
            /\ exitCode' = 0
       ELSE /\ pc' = "Fetching"
            /\ UNCHANGED exitCode
    /\ UNCHANGED <<cfg, data, artifact, body, fs, files, r, idx, filenames, err,
                   listReqs, dlReqs, failedAt, envFault>>
    /\ UNCHANGED <<handles, peak, unzipCalls>>

\* updater.Artifacts and main's check of its error
Artifacts ==
    /\ pc = "Fetching"
    /\ listReqs' = listReqs + 1
    /\ \/ \* client.Do fails: there is no response
          /\ Fatal("transport")
          /\ UNCHANGED <<data, handles>>
       \/ \* a response: its body is closed by the deferred resp.Body.Close()
          /\ \E reason \in {"received non 200 response code", "read body", "unmarshal"} :
               Fatal(reason)
          /\ handles' = Closed(Opened(handles, RespBody), RespBody)
          /\ UNCHANGED data
       \/ /\ data' \in Catalogs
          /\ pc' = "Selecting"
          /\ handles' = Closed(Opened(handles, RespBody), RespBody)
          /\ UNCHANGED <<err, exitCode, failedAt>>
    /\ UNCHANGED <<cfg, artifact, body, fs, files, r, idx, filenames, dlReqs, envFault>>
    /\ UNCHANGED <<peak, unzipCalls>>

\* main: HasArtifacts, LatestActiveSherpaArtifact and the check of its error
Select ==
    /\ pc = "Selecting"
    /\ IF HasArtifacts(data)
       THEN LET sel == LatestActiveSherpaArtifact(data)
            IN  IF sel.err # ""
                THEN Fatal(sel.err) /\ UNCHANGED artifact
                ELSE /\ artifact' = sel.response
                     /\ pc' = "Downloading"
                     /\ UNCHANGED <<err, exitCode, failedAt>>
       ELSE /\ pc' = "NothingToDo"
            /\ exitCode' = 0
            /\ UNCHANGED <<artifact, err, failedAt>>
    /\ UNCHANGED <<cfg, data, body, fs, files, r, idx, filenames, listReqs, dlReqs, envFault>>
    /\ UNCHANGED <<handles, peak, unzipCalls>>

(* ------------------------- DownloadAndReplace -------------------------- *)
\* the error of DownloadFile dropped: DownloadAndReplace goes on after a
\* download that failed
DownloadFileErrorDropped ==
    /\ pc = "Downloading"
    /\ dlReqs' = dlReqs + 1
    /\ \/ /\ err' \in {"transport", "received non 200 response code"}
          /\ UNCHANGED <<body, fs, envFault>>
       \/ /\ err' = "create"
          /\ envFault' = (envFault \/ CreateOK(fs, ZipPath))
          /\ UNCHANGED <<body, fs>>
       \/ /\ CreateOK(fs, ZipPath)
          /\ body' \in Archives
          /\ fs' = Put(fs, ZipPath, ZipNode(<<>>, FALSE))
          /\ err' = "copy"
          /\ envFault' = TRUE
       \/ /\ CreateOK(fs, ZipPath)
          /\ \/ /\ body' \in Archives
                /\ fs' = Put(fs, ZipPath, ZipNode(body', TRUE))
             \/ /\ body' = <<>>
                /\ fs' = Put(fs, ZipPath, ZipNode(<<>>, FALSE))
          /\ UNCHANGED <<err, envFault>>
    /\ pc' = "PreparingTarget"
    /\ UNCHANGED <<cfg, data, artifact, files, r, idx, filenames, listReqs, exitCode, failedAt,
                   handles, peak, unzipCalls>>

\* updater.DownloadFile(url, "dist.zip") and the check of its error
DownloadFile ==
    /\ pc = "Downloading"
    /\ dlReqs' = dlReqs + 1
    /\ \/ \* client.Do fails: there is no response
          /\ Fatal("transport")
          /\ UNCHANGED <<body, fs, envFault, handles>>
       \/ \* from here on the deferred resp.Body.Close() closes the body
          /\ Fatal("received non 200 response code")
          /\ handles' = Closed(Opened(handles, RespBody), RespBody)
          /\ UNCHANGED <<body, fs, envFault>>
       \/ \* os.Create fails
          /\ Fatal("create")
          /\ envFault' = (envFault \/ CreateOK(fs, ZipPath))
          /\ handles' = Closed(Opened(handles, RespBody), RespBody)
          /\ UNCHANGED <<body, fs>>
       \/ \* io.Copy fails: the file holds a part of the body; the deferred
          \* file.Close() closes the file
          /\ CreateOK(fs, ZipPath)
          /\ body' \in Archives
          /\ fs' = Put(fs, ZipPath, ZipNode(<<>>, FALSE))
          /\ Fatal("copy")
          /\ envFault' = TRUE
          /\ handles' = Closed(Closed(Opened(Opened(handles, RespBody), DownloadHandle),
                                       DownloadHandle), RespBody)
       \/ \* the body is written in full: a zip archive, or something else
          /\ CreateOK(fs, ZipPath)
          /\ \/ /\ body' \in Archives
                /\ fs' = Put(fs, ZipPath, ZipNode(body', TRUE))
             \/ /\ body' = <<>>
                /\ fs' = Put(fs, ZipPath, ZipNode(<<>>, FALSE))
          /\ pc' = "PreparingTarget"
          /\ handles' = Closed(Closed(Opened(Opened(handles, RespBody), DownloadHandle),
                                       DownloadHandle), RespBody)
          /\ UNCHANGED <<err, exitCode, failedAt, envFault>>
    /\ UNCHANGED <<cfg, data, artifact, files, r, idx, filenames, listReqs>>
    /\ UNCHANGED <<peak, unzipCalls>>

\* os.Stat, then os.Mkdir or ioutil.ReadDir
PrepareTarget ==
    /\ pc = "PreparingTarget"
    /\ IF ~Exists(fs, Target)
       THEN \/ /\ MkdirOK(fs, Target)
               /\ fs' = Put(fs, Target, DirNode)
               /\ pc' = "Extracting"
               /\ UNCHANGED <<files, err, exitCode, failedAt, envFault>>
            \/ /\ Fatal("mkdir")
               /\ envFault' = (envFault \/ MkdirOK(fs, Target))
               /\ UNCHANGED <<fs, files>>
       ELSE \/ /\ IsDirAt(fs, Target)
               /\ files' = ReadDir(fs, Target)
               /\ pc' = IF files' = <<>> THEN "Extracting" ELSE "Removing"
               /\ UNCHANGED <<fs, err, exitCode, failedAt, envFault>>
            \/ /\ Fatal("readdir")
               /\ envFault' = (envFault \/ IsDirAt(fs, Target))
               /\ UNCHANGED <<fs, files>>
    /\ UNCHANGED <<cfg, data, artifact, body, r, idx, filenames, listReqs, dlReqs>>
    /\ UNCHANGED <<handles, peak, unzipCalls>>

\* the error of the removal dropped: the loop goes on to the next child
RemoveChildIgnoringError ==
    /\ pc = "Removing"
    /\ files # <<>>
    /\ \/ /\ fs' = Without(fs, Resolve(Join(directory, Head(files).name)))
          /\ UNCHANGED envFault
       \/ /\ fs' = fs
          /\ envFault' = TRUE
    /\ files' = Tail(files)
    /\ pc' = IF files' = <<>> THEN "Extracting" ELSE "Removing"
    /\ UNCHANGED <<cfg, data, artifact, body, r, idx, filenames, listReqs, dlReqs, err, exitCode,
                   failedAt, handles, peak, unzipCalls>>

\* one pass of the loop over the listing: os.RemoveAll or os.Remove
RemoveChild ==
    /\ pc = "Removing"
    /\ files # <<>>
    /\ LET f == Head(files)
           filePath == Join(directory, f.name)
           p == Resolve(filePath)
       IN  \/ /\ fs' = Without(fs, p)
              /\ files' = Tail(files)
              /\ pc' = IF files' = <<>> THEN "Extracting" ELSE "Removing"
              /\ UNCHANGED <<err, exitCode, failedAt, envFault>>
           \/ \* the removal fails; RemoveAll may have removed a part
              /\ Fatal("remove")
              /\ envFault' = TRUE
              /\ \/ fs' = fs
                 \/ f.isDir /\ fs' = Emptied(fs, p)
              /\ UNCHANGED files
    /\ UNCHANGED <<cfg, data, artifact, body, r, idx, filenames, listReqs, dlReqs>>
    /\ UNCHANGED <<handles, peak, unzipCalls>>

(* -------------------------------- unzip -------------------------------- *)
\* zip.OpenReader("dist.zip")
unzipOpen ==
    /\ pc = "Extracting"
    /\ filenames' = <<>>
    /\ unzipCalls' = unzipCalls + 1
    /\ \/ \* the reader stays open until unzip returns (defer r.Close())
          /\ IsFileAt(fs, ZipPath)
          /\ fs[ZipPath].valid
          /\ r' = fs[ZipPath].zip
          /\ idx' = 1
          /\ pc' = IF r' = <<>> THEN "Unzipped" ELSE "Unzipping"
          /\ handles' = IF r' = <<>> THEN Closed(Opened(handles, ZipReader), ZipReader)
                         ELSE Opened(handles, ZipReader)
          /\ UNCHANGED <<err, envFault>>
       \/ /\ pc' = "Unzipped"
          /\ err' = "open archive"
          /\ envFault' = (envFault \/ (IsFileAt(fs, ZipPath) /\ fs[ZipPath].valid))
          /\ UNCHANGED <<r, idx, handles>>
    /\ UNCHANGED <<cfg, data, artifact, body, fs, files, exitCode, listReqs, dlReqs, failedAt>>
    /\ UNCHANGED peak

\* the ZipSlip test without the separator after the destination
ZipSlipNoSeparator(filePath, dest) == HasPrefix(filePath, Clean(dest))

\* no ZipSlip test at all
ZipSlipNotChecked(filePath, dest) == TRUE

\* the ZipSlip test of unzip
ZipSlipOK(filePath, dest) == HasPrefix(filePath, Clean(dest) \o <<Sep>>)

\* the output file stays open until unzip returns (a deferred Close)
CloseOutFileDeferred(h, x) == h

\* outFile.Close()
CloseOutFile(h, x) == Closed(h, x)

\* the path put in front of the list
RecordPathInFront(names, filePath) == <<filePath>> \o names

\* filenames = append(filenames, filePath)
RecordPath(names, filePath) == Append(names, filePath)

\* unzip returns to its caller with the handles h open; the deferred
\* r.Close() closes the archive reader
unzipDone(e, h) ==
    /\ pc' = "Unzipped"
    /\ err' = e
    /\ handles' = Closed(h, ZipReader)
    /\ UNCHANGED idx

\* unzip goes on to the next entry, or returns after the last one
unzipContinue(h) ==
    IF idx = Len(r)
    THEN unzipDone("", h)
    ELSE /\ idx' = idx + 1
         /\ handles' = h
         /\ UNCHANGED <<pc, err>>

\* one pass of the loop of unzip over r.File
unzipEntry ==
    /\ pc = "Unzipping"
    /\ LET f == r[idx]
           filePath == Join(directory, f.Name)
           p == Resolve(filePath)
           parent == Resolve(Dir(filePath))
           outFile == OutFile(p, idx)
           \* the handles while outFile is open
           during == Opened(handles, outFile)
           made == MkdirAll(fs, parent)
       IN  IF ~ZipSlipOK(filePath, directory)
           THEN /\ unzipDone("illegal file path", handles)
                /\ UNCHANGED <<fs, filenames, envFault, peak>>
           ELSE /\ filenames' = RecordPath(filenames, filePath)
                /\ IF f.IsDir
                   THEN \* os.MkdirAll, its error dropped
                        /\ \/ /\ MkdirAllOK(fs, p)
                              /\ fs' = MkdirAll(fs, p)
                              /\ UNCHANGED envFault
                           \/ /\ fs' = fs
                              /\ envFault' = (envFault \/ MkdirAllOK(fs, p))
                        /\ unzipContinue(handles)
                        /\ UNCHANGED peak
                   ELSE \/ \* os.MkdirAll of the parent fails
                           /\ unzipDone("mkdir", handles)
                           /\ envFault' = (envFault \/ MkdirAllOK(fs, parent))
                           /\ UNCHANGED <<fs, peak>>
                        \/ \* os.OpenFile fails
                           /\ MkdirAllOK(fs, parent)
                           /\ fs' = made
                           /\ unzipDone("open file", handles)
                           /\ envFault' = (envFault \/ CreateOK(fs', p))
                           /\ UNCHANGED peak
                        \/ \* f.Open fails: the output file is left empty, and
                           \* unzip returns without closing it
                           /\ MkdirAllOK(fs, parent)
                           /\ CreateOK(made, p)
                           /\ fs' = Put(made, p, FileNode(<<>>))
                           /\ peak' = MaxOfTwo(peak, Cardinality(OutFilesOpen(during)))
                           /\ unzipDone("open entry", during)
                           /\ envFault' = TRUE
                        \/ \* io.Copy fails: the output file holds a part
                           /\ MkdirAllOK(fs, parent)
                           /\ CreateOK(made, p)
                           /\ \E n \in 0..Len(f.Data) :
                                 /\ n < Len(f.Data) \/ n = 0
                                 /\ fs' = Put(made, p, FileNode(SubSeq(f.Data, 1, n)))
                           /\ peak' = MaxOfTwo(peak, Cardinality(OutFilesOpen(during)))
                           /\ unzipDone("copy", CloseOutFile(during, outFile))
                           /\ envFault' = TRUE
                        \/ \* the entry is written in full
                           /\ MkdirAllOK(fs, parent)
                           /\ CreateOK(made, p)
                           /\ fs' = Put(made, p, FileNode(f.Data))
                           /\ peak' = MaxOfTwo(peak, Cardinality(OutFilesOpen(during)))
                           /\ unzipContinue(CloseOutFile(during, outFile))
                           /\ UNCHANGED envFault
    /\ UNCHANGED <<cfg, data, artifact, body, files, r, exitCode, listReqs, dlReqs, failedAt>>
    /\ UNCHANGED unzipCalls

\* unzip's error dropped: the run goes on to the clean-up
CheckUnzipIgnoringError ==
    /\ pc = "Unzipped"
    /\ pc' = "CleaningUp"
    /\ UNCHANGED <<cfg, data, artifact, body, fs, files, r, idx, filenames, err, exitCode,
                   listReqs, dlReqs, failedAt, envFault>>
    /\ UNCHANGED <<handles, peak, unzipCalls>>

\* DownloadAndReplace: the check of unzip's error
CheckUnzip ==
    /\ pc = "Unzipped"
    /\ IF err # ""
       THEN Fatal(err)
       ELSE /\ pc' = "CleaningUp"
            /\ UNCHANGED <<err, exitCode, failedAt>>
    /\ UNCHANGED <<cfg, data, artifact, body, fs, files, r, idx, filenames, listReqs, dlReqs, envFault>>
    /\ UNCHANGED <<handles, peak, unzipCalls>>

\* the error of os.Remove dropped: the run ends in Done either way
RemoveArchiveIgnoringError ==
    /\ pc = "CleaningUp"
    /\ \/ /\ IsFileAt(fs, ZipPath)
          /\ fs' = Without(fs, ZipPath)
          /\ UNCHANGED envFault
       \/ /\ fs' = fs
          /\ envFault' = (envFault \/ IsFileAt(fs, ZipPath))
    /\ pc' = "Done"
    /\ exitCode' = 0
    /\ UNCHANGED <<cfg, data, artifact, body, files, r, idx, filenames, listReqs, dlReqs, err,
                   failedAt, handles, peak, unzipCalls>>

\* os.Remove("dist.zip"), then main prints "All done"
RemoveArchive ==
    /\ pc = "CleaningUp"
    /\ \/ /\ IsFileAt(fs, ZipPath)
          /\ fs' = Without(fs, ZipPath)
          /\ pc' = "Done"
          /\ exitCode' = 0
          /\ UNCHANGED <<err, failedAt, envFault>>
       \/ /\ Fatal("remove archive")
          /\ envFault' = (envFault \/ IsFileAt(fs, ZipPath))
          /\ UNCHANGED fs
    /\ UNCHANGED <<cfg, data, artifact, body, files, r, idx, filenames, listReqs, dlReqs>>
    /\ UNCHANGED <<handles, peak, unzipCalls>>

(* ---------------------------- specifications --------------------------- *)
Next ==
    \/ CheckFlags
    \/ Artifacts
    \/ Select
    \/ DownloadFile
    \/ PrepareTarget
    \/ RemoveChild
    \/ unzipOpen
    \/ unzipEntry
    \/ CheckUnzip
    \/ RemoveArchive

Spec == Init /\ [][Next]_vars

\* unzip on its own, for the claims about unzip as a function
NextUnzip ==
    \/ unzipOpen
    \/ unzipEntry

SpecUnzip == InitUnzip /\ [][NextUnzip]_vars

TypeOK ==
    /\ pc \in {"Start", "Fetching", "Selecting", "Downloading", "PreparingTarget", "Removing",
               "Extracting", "Unzipping", "Unzipped", "CleaningUp",
               "Done", "NothingToDo", "Aborted", "Failed"}
    /\ exitCode \in {-1, 0, 1}
    /\ \A q \in DOMAIN fs : q = <<>> \/ IsDirAt(fs, Front(q))

(* ------------------------ vocabulary of the claims --------------------- *)
Terminal == {"Done", "NothingToDo", "Aborted", "Failed"}
\* the listing request was answered and decoded
Fetched == listReqs = 1 /\ pc \notin {"Start", "Fetching", "Aborted"} /\ failedAt # "Fetching"
\* the positions of the catalog entries that qualify for selection
Qualifying(d) == {i \in 1..Len(d.Artifacts) :
                    d.Artifacts[i].Name = "sherpa4selfie" /\ d.Artifacts[i].Expired = FALSE}
MinOf(S) == CHOOSE i \in S : \A j \in S : i <= j
MaxOf(S) == CHOOSE i \in S : \A j \in S : j <= i

\* what lies in the target directory: the directory itself and all below it,
\* the temporary archive not counted
TargetTree(f) == [q \in {x \in DOMAIN f : Within(Target, x) /\ x # ZipPath} |-> f[q]]
\* where an entry belongs: its stored relative name, followed from the target
EntryPath(e) == ResolveFrom(Split(e.Name), Target)
EntryInside(e) == Under(Target, EntryPath(e))
EntryPaths(z) == {EntryPath(z[i]) : i \in 1..Len(z)}
\* the tree an archive stores: its entries and the directories leading to them
ExpectedTree(z) ==
    LET paths == {Target} \cup
                 {q \in UNION {Prefixes(x) : x \in EntryPaths(z)} : Within(Target, q)}
        fileAt(q) == {i \in 1..Len(z) : EntryPath(z[i]) = q /\ ~z[i].IsDir}
    IN  [q \in paths |-> IF fileAt(q) # {} THEN FileNode(z[MaxOf(fileAt(q))].Data) ELSE DirNode]
\* entry i of the archive is in the filesystem as the archive stores it
EntryStored(z, i) ==
    /\ Exists(fs, EntryPath(z[i]))
    /\ fs[EntryPath(z[i])] = IF z[i].IsDir THEN DirNode ELSE FileNode(z[i].Data)
\* no two entries claim one path differently, no file entry is a directory of another
WellFormed(z) ==
    \A i, j \in 1..Len(z) :
        /\ EntryPath(z[i]) = EntryPath(z[j]) => z[i] = z[j]
        /\ Under(EntryPath(z[i]), EntryPath(z[j])) => z[i].IsDir
\* something changed at q since the start
Touched(q) == (q \in DOMAIN fs /\ (q \notin DOMAIN fs0 \/ fs[q] # fs0[q])) \/
              (q \in DOMAIN fs0 /\ q \notin DOMAIN fs)

(* -------------------------------- claims ------------------------------- *)
\* C1 (as stated): whenever DownloadAndReplace returns success (Done), the
\* target directory exists and holds exactly the tree stored in the
\* downloaded archive, nothing missing and nothing of the old content left.
C1_DoneHoldsExactlyArchive ==
    pc = "Done" => /\ IsDirAt(fs, Target)
                   /\ TargetTree(fs) = ExpectedTree(r)

EndedBeforePrepare ==
    \/ pc \in {"Aborted", "NothingToDo"}
    \/ pc = "Failed" /\ failedAt \in {"Fetching", "Selecting", "Downloading"}
EndedAfterExtract ==
    \/ pc = "Done"
    \/ pc = "Failed" /\ failedAt = "CleaningUp"
Escaping(z) == {i \in 1..Len(z) : ~EntryInside(z[i])}
C3_NothingOutsideDestination ==
    /\ \A q \in DOMAIN fs \cup DOMAIN fs0 : Touched(q) => Within(Target, q)
    /\ (pc = "Unzipped" /\ Escaping(r) # {} /\ ~envFault) => err = "illegal file path"

\* C4: whenever the catalog holds a qualifying entry, the selection returns,
\* without error, the qualifying entry at the smallest position.
C4_FirstQualifyingSelected ==
    /\ (pc = "Selecting" /\ Qualifying(data) # {}) =>
          /\ LatestActiveSherpaArtifact(data).err = ""
          /\ LatestActiveSherpaArtifact(data).response = data.Artifacts[MinOf(Qualifying(data))]
    /\ (Fetched /\ pc # "Selecting" /\ data.Count > 0 /\ Qualifying(data) # {}) =>
          /\ failedAt # "Selecting"
          /\ artifact = data.Artifacts[MinOf(Qualifying(data))]
          /\ artifact.Name = "sherpa4selfie" /\ ~artifact.Expired
C4_Witness ==
    /\ pc = "Downloading"
    /\ Cardinality(Qualifying(data)) >= 2
    /\ artifact = data.Artifacts[1]

\* C5 (as stated): for every catalog without a qualifying entry the run
\* halts in Failed with the not-found error, no download request issued and
\* the filesystem (target directory, temporary archive) untouched.
C5_NoQualifyingFails ==
    (Fetched /\ pc # "Selecting" /\ Qualifying(data) = {}) =>
        /\ pc = "Failed"
        /\ err = "no suitable artifacts found"
        /\ dlReqs = 0
        /\ fs = fs0

\* C5 (amended): for every catalog with a reported count greater than zero
\* and without a qualifying entry, the run halts in Failed with the not-found
\* error, no download request issued and the filesystem untouched.
C5_NoQualifyingFailsWhenCounted ==
    (Fetched /\ pc # "Selecting" /\ data.Count > 0 /\ Qualifying(data) = {}) =>
        /\ pc = "Failed"
        /\ failedAt = "Selecting"
        /\ err = "no suitable artifacts found"
        /\ exitCode = 1
        /\ dlReqs = 0
        /\ fs = fs0
C5_Witness ==
    /\ pc = "Failed"
    /\ failedAt = "Selecting"
    /\ data.Artifacts = <<>>
    /\ data.Count > 0

\* C6: for every catalog with a reported count of 0, HasArtifacts is false
\* and the run ends in the successful nothing-to-do state without selection,
\* download request or any change to the filesystem.
C6_ZeroCountNothingToDo ==
    /\ (pc = "Selecting" /\ data.Count = 0) => ~HasArtifacts(data)
    /\ (Fetched /\ pc # "Selecting" /\ data.Count = 0) =>
          /\ pc = "NothingToDo"
          /\ exitCode = 0
          /\ artifact = NoArtifact
          /\ dlReqs = 0
          /\ fs = fs0
          /\ ~Exists(fs, ZipPath)
C6_Witness ==
    /\ pc = "NothingToDo"
    /\ Qualifying(data) # {}
    /\ Exists(fs, Append(Target, OldFile))

\* C7: the steps run in the order Fetching, Selecting, Downloading,
\* PreparingTarget, Extracting, CleaningUp, Done, never backwards and never
\* twice; an error leads to Failed and to nothing else; a terminal state is
\* never left; no request is issued twice.
Position(p) ==
    CASE p = "Start" -> 0
      [] p = "Fetching" -> 10
      [] p = "Selecting" -> 20
      [] p = "Downloading" -> 30
      [] p = "PreparingTarget" -> 40
      [] p = "Removing" -> 41
      [] p = "Extracting" -> 50
      [] p = "Unzipping" -> 51
      [] p = "Unzipped" -> 52
      [] p = "CleaningUp" -> 60
      [] OTHER -> 70
StepOf(p) == Position(p) \div 10
C7_StepOrder ==
    /\ pc' # pc =>
          /\ pc \notin Terminal
          /\ \/ pc' = "Failed"
             \/ pc = "Start" /\ pc' = "Aborted"
             \/ pc = "Selecting" /\ pc' = "NothingToDo"
             \/ /\ pc' \notin Terminal \/ pc' = "Done"
                /\ Position(pc') > Position(pc)
                /\ StepOf(pc') \in {StepOf(pc), StepOf(pc) + 1}
          /\ err # "" => pc' = "Failed"
    /\ pc \in Terminal => UNCHANGED vars
    /\ (err = "" /\ err' # "") => pc' \in {"Failed", "Unzipped"}
    /\ (pc = "Failed") = (failedAt # "")
    /\ listReqs' <= 1
    /\ dlReqs' <= 1
    /\ listReqs' >= listReqs /\ dlReqs' >= dlReqs
C7_StepsInOrder == [][C7_StepOrder]_vars
C7_Witness ==
    /\ pc = "Done"
    /\ listReqs = 1
    /\ dlReqs = 1

\* C8 (as stated): in Done the temporary archive dist.zip is gone, and after
\* a failure in PreparingTarget or Extracting the archive written by the
\* download is still in place.
C8_ArchiveLifecycle ==
    /\ pc = "Done" => ~Exists(fs, ZipPath)
    /\ (pc = "Failed" /\ failedAt \in {"PreparingTarget", "Removing", "Extracting",
                                       "Unzipping", "Unzipped"}) =>
          /\ IsFileAt(fs, ZipPath)
          /\ fs[ZipPath].zip = body

\* C9 (as stated): for every destination and every well-formed archive whose
\* entries all lie inside it, unzip (with a working filesystem) succeeds and
\* every entry then exists under the destination at its stored relative path
\* with the entry's content.
C9_WellFormedArchiveExtracted ==
    (pc = "Unzipped" /\ ~envFault /\ WellFormed(body) /\ Escaping(body) = {}) =>
        /\ err = ""
        /\ \A i \in 1..Len(body) : EntryStored(body, i)

\* C10 (as stated): with a missing option the program aborts with a non-zero
\* exit status before any request is issued or any file touched.
MissingOption == repository = "" \/ token = "" \/ directory = <<>>
C10_MissingOptionAborts ==
    (MissingOption /\ pc # "Start") =>
        /\ pc = "Aborted"
        /\ exitCode \notin {-1, 0}
        /\ listReqs = 0
        /\ dlReqs = 0
        /\ fs = fs0

\* C11 (as stated): whenever Artifacts, DownloadFile or unzip has returned,
\* every file handle and response body it opened is closed; only while unzip
\* is still walking the archive may a handle be open.
C11_HandlesClosedOnReturn ==
    pc # "Unzipping" => handles = {}

\* C12 (as stated): unzip returns success, and the run goes on to the
\* clean-up and to Done, only if every entry of the archive, file or
\* directory, was created under the target directory.
EntryCreated(z, i) ==
    /\ Exists(fs, EntryPath(z[i]))
    /\ fs[EntryPath(z[i])].kind = IF z[i].IsDir THEN "dir" ELSE "file"
C12_ExtractionErrorsFatal ==
    (pc \in {"CleaningUp", "Done"} \/ (pc = "Unzipped" /\ err = "")) =>
        \A i \in 1..Len(r) : EntryInside(r[i]) /\ EntryCreated(r, i)

\* C13 (as stated): after a failure of the listing request, of the selection
\* or of the download, everything in and below the target directory is as it
\* was before the run.
C13_TargetExactlyAsBefore ==
    (pc = "Failed" /\ failedAt \in {"Fetching", "Selecting", "Downloading"}) =>
        \A q \in DOMAIN fs \cup DOMAIN fs0 : Within(Target, q) => ~Touched(q)

\* C13 (amended): a failure of the listing request, of the selection or of the download
\* takes the run to Failed at once, with the target directory as it was
\* before the run (the temporary archive not counted) and unzip never called;
\* nothing happens after that, and unzip is only ever called after a download
\* that reported no error.
EarlySteps == {"Fetching", "Selecting", "Downloading"}
C13_EarlyFailure ==
    /\ (pc \in EarlySteps /\ err' # "") =>
          /\ pc' = "Failed"
          /\ failedAt' = pc
          /\ exitCode' = 1
          /\ TargetTree(fs') = TargetTree(fs0)
          /\ files' = <<>>
          /\ unzipCalls' = 0
    /\ (pc = "Failed" /\ failedAt \in EarlySteps) => UNCHANGED vars
    /\ unzipCalls' > unzipCalls => (err = "" /\ dlReqs = 1 /\ pc = "Extracting")
C13_EarlyFailureLeavesTarget == [][C13_EarlyFailure]_vars
C13_Witness ==
    /\ pc = "Failed"
    /\ failedAt = "Downloading"
    /\ err = "copy"
    /\ IsFileAt(fs, ZipPath) /\ ~fs[ZipPath].valid
    /\ ~Within(Target, ZipPath)
    /\ Exists(fs, Append(Append(Target, OldSub), <<"x">>))

\* C14: while PreparingTarget removes the children of an existing target
\* directory, and after a removal failed, the directory itself exists, its
\* children are exactly the children not yet removed (the failing one and
\* those after it in the listing), the later ones untouched; each pass
\* removes one child, a failing pass removes none and ends the run in
\* Failed, and unzip has not been called.
Listed == ChildNames(fs0, Target) \cup (IF Front(ZipPath) = Target THEN {DistZip} ELSE {})
C14_Removal ==
    /\ (pc' = "Removing" \/ (pc' = "Failed" /\ failedAt' = "Removing")) =>
          LET remaining == {files'[i].name : i \in 1..Len(files')}
          IN  /\ IsDirAt(fs', Target)
              /\ files' # <<>>
              /\ remaining \subseteq Listed
              /\ ChildNames(fs', Target) = remaining
              /\ \A a \in Listed \ remaining : \A b \in remaining : LessStr(a, b)
              /\ \A i \in 2..Len(files') :
                    \A q \in DOMAIN fs0 \cup DOMAIN fs' :
                        (Within(Append(Target, files'[i].name), q) /\ q # ZipPath) =>
                            (q \in DOMAIN fs0 /\ q \in DOMAIN fs' /\ fs'[q] = fs0[q])
              /\ unzipCalls' = 0
    /\ (pc = "Removing" /\ pc' # "Failed") =>
          /\ files' = Tail(files)
          /\ ChildNames(fs', Target) = ChildNames(fs, Target) \ {Head(files).name}
          /\ pc' = IF files' = <<>> THEN "Extracting" ELSE "Removing"
    /\ (pc = "Removing" /\ ChildNames(fs', Target) = ChildNames(fs, Target)) =>
          /\ pc' \in {"Removing", "Failed"}
          /\ pc' = "Removing" => UNCHANGED vars
          /\ pc' = "Failed" => files' = files
C14_ChildrenRemovedOneByOne == [][C14_Removal]_vars
C14_Witness ==
    /\ pc = "Failed"
    /\ failedAt = "Removing"
    /\ Exists(fs0, Append(Target, OldFile))
    /\ ChildNames(fs, Target) = {OldSub}
    /\ Exists(fs, Append(Append(Target, OldSub), <<"x">>))

\* C15: an entry that fails the path test makes unzip return at once with the
\* illegal-file-path error, the filesystem and the path list left as they
\* are; on that return the path list holds the resolved paths of the entries
\* before the failing one, the file entries before it are in place, and
\* nothing but the paths of the entries before it has been touched.
StoredIn(f, z, i) ==
    /\ Exists(f, EntryPath(z[i]))
    /\ f[EntryPath(z[i])] = IF z[i].IsDir THEN DirNode ELSE FileNode(z[i].Data)
C15_Stop ==
    /\ (pc = "Unzipping" /\
        ~HasPrefix(Join(directory, r[idx].Name), Clean(directory) \o <<"/">>)) =>
          /\ pc' = "Unzipped"
          /\ err' = "illegal file path"
          /\ idx' = idx
          /\ fs' = fs
          /\ filenames' = filenames
    /\ (pc' = "Unzipped" /\ err' = "illegal file path") =>
          /\ Len(filenames') = idx' - 1
          /\ \A i \in 1..(idx' - 1) :
                /\ Resolve(filenames'[i]) = EntryPath(r'[i])
                /\ ~r'[i].IsDir => StoredIn(fs', r', i)
                /\ ~envFault' => StoredIn(fs', r', i)
          /\ \A q \in DOMAIN fs' \cup DOMAIN fs0 :
                (q \notin DOMAIN fs0 \/ q \notin DOMAIN fs' \/ fs'[q] # fs0[q]) =>
                    \E i \in 1..(idx' - 1) : q \in Prefixes(EntryPath(r'[i]))
C15_StopsAtIllegalPath == [][C15_Stop]_vars
C15_Witness ==
    /\ pc = "Unzipped"
    /\ err = "illegal file path"
    /\ idx = 2
    /\ ~r[1].IsDir
    /\ EntryStored(r, 1)
    /\ Len(filenames) = 1

\* C16: when the removal of the temporary archive fails, the run ends in
\* Failed with that error and the failing step changes nothing in the
\* filesystem: the archive is still there and the target directory holds
\* what the extraction left, every file entry in place.
C16_CleanUp ==
    /\ (pc = "CleaningUp" /\ pc' # pc /\ Exists(fs', ZipPath)) =>
          /\ pc' = "Failed"
          /\ failedAt' = "CleaningUp"
          /\ err' = "remove archive"
          /\ exitCode' = 1
    /\ (pc = "CleaningUp" /\ pc' = "Failed") => fs' = fs
    /\ (pc' = "Failed" /\ failedAt' = "CleaningUp") =>
          /\ \A i \in 1..Len(r') : ~r'[i].IsDir => StoredIn(fs', r', i)
          /\ \A q \in DOMAIN TargetTree(fs') : q \in DOMAIN ExpectedTree(r')
C16_CleanUpFailureKeepsTarget == [][C16_CleanUp]_vars
C16_Witness ==
    /\ pc = "Failed"
    /\ failedAt = "CleaningUp"
    /\ err = "remove archive"
    /\ IsFileAt(fs, ZipPath)
    /\ Len(r) = 2
    /\ \A i \in 1..Len(r) : EntryStored(r, i)
    /\ Exists(fs0, Append(Target, OldFile))

\* C17: on success unzip returns one path per entry of the archive, in the
\* order of the entries, each resolving to the place of its entry under the
\* destination; for the destination "o" the path is "o/" and the entry name
\* without its trailing separator.
Trimmed(name) == IF name # <<>> /\ Last(name) = "/" THEN Front(name) ELSE name
C17_OnePathPerEntry ==
    (pc = "Unzipped" /\ err = "") =>
        /\ Len(filenames) = Len(r)
        /\ \A i \in 1..Len(r) :
              /\ Resolve(filenames[i]) = EntryPath(r[i])
              /\ directory = <<"o">> => filenames[i] = <<"o", "/">> \o Trimmed(r[i].Name)
C17_Witness ==
    /\ pc = "Unzipped"
    /\ err = ""
    /\ directory = <<"o">>
    /\ Len(r) = 2
    /\ r[1].IsDir
    /\ filenames = << <<"o", "/", "d">>, <<"o", "/", "d", "/", "g">> >>

\* C18: at no moment of unzip's walk is more than one output file open, and
\* no output file is open when the loop turns to the next entry.
C18_OneOutputFileOpen ==
    /\ peak <= 1
    /\ Cardinality(OutFilesOpen(handles)) <= 1
    /\ pc = "Unzipping" => OutFilesOpen(handles) = {}
C18_Witness ==
    /\ pc = "Unzipping"
    /\ idx = 2
    /\ ~r[1].IsDir
    /\ ~r[2].IsDir
    /\ peak = 1
====
